---- MODULE Spec2Model ----
(***************************************************************************)
(* Model of iroh/examples/transfer.rs: the Provider's accept loop and its  *)
(* per-connection tasks (provide, send_data_on_stream) and the Fetcher     *)
(* (fetch, drain_stream), over a QUIC-like transport whose outcomes are    *)
(* inputs of the steps that await them.                                    *)
(*                                                                         *)
(* One action is one step of a task between two suspension points (.await) *)
(* together with all the synchronous code that follows the await.          *)
(* Time is counted in whole seconds.                                       *)
(***************************************************************************)
EXTENDS Integers, Sequences, FiniteSets, TLC

\* ------------------------------------------------------------------ bounds
\* Incoming connection attempts the accept loop sees in one run.
MaxAttempts == 2
\* Seconds the Fetcher's stopwatch (`start.elapsed()`) is followed for.
MaxTime == 3
\* Data units the transport may cut out of the bytes in flight before it
\* only delivers whole what is in flight.
MaxSplits == 1
\* Data units the transport makes of one payload when drain_stream is run
\* in its two modes side by side.
MaxUnits == 3

\* ------------------------------------------------------- program constants
\* DATA.len(): the chunk size of send_data_on_stream.
CHUNK == 1024 * 1024
\* recv.read_to_end(100): the cap of the greeting read.
GREETING_CAP == 100
\* Duration::from_secs(3): the close-wait of both roles.
CLOSE_TIMEOUT == 3
\* The pool of Bytes buffers of the ordered drain.
NUM_BUFS == 32
\* len(" is saying 'hello!'"), the fixed part of the Fetcher's greeting.
HELLO_SUFFIX_LEN == 19
\* Length of a printed node id (`{me}`).
NODE_ID_LEN == 52

\* Payload sizes the Provider is started with (`--size`).
Sizes == {0, 1, CHUNK - 1, CHUNK, CHUNK + 1, 2 * CHUNK, 2 * CHUNK + 1}
\* Payload sizes of the runs with several connections.
SizesProvide == {0, CHUNK + 1}

\* Greetings a peer other than `fetch` may send: [len, utf8].
Greetings ==
  { [len |-> 0, utf8 |-> TRUE],
    [len |-> GREETING_CAP, utf8 |-> TRUE],
    [len |-> GREETING_CAP + 1, utf8 |-> TRUE],
    [len |-> HELLO_SUFFIX_LEN + NODE_ID_LEN, utf8 |-> FALSE] }
NoGreeting == [len |-> -1, utf8 |-> TRUE]

\* Ticket strings fetch may be given: one printed by a Provider, and one
\* with a corrupted character.
Tickets == {"valid", "corrupt"}

Conns == 1..MaxAttempts

\* ---------------------------------------------------------- pure helpers
RECURSIVE SumSeq(_)
SumSeq(s) == IF s = <<>> THEN 0 ELSE Head(s) + SumSeq(Tail(s))

Min(a, b) == IF a <= b THEN a ELSE b

\* send_data_on_stream: `stream_size / DATA.len()`.
full_chunks_floorplus(stream_size) == (stream_size + CHUNK - 1) \div CHUNK
full_chunks(stream_size) == stream_size \div CHUNK

\* send_data_on_stream: `stream_size % DATA.len()`.
remaining(stream_size) == stream_size % CHUNK

\* The size of the chunk the writer writes after `done` chunk writes, 0 when
\* the `for` loop and the `if remaining != 0` have nothing left to write.
NextChunkNoSlice(stream_size, done) ==
  IF done < full_chunks(stream_size) THEN CHUNK
  ELSE IF done = full_chunks(stream_size) /\ remaining(stream_size) # 0
       THEN CHUNK
       ELSE 0
NextChunk(stream_size, done) ==
  IF done < full_chunks(stream_size) THEN CHUNK
  ELSE IF done = full_chunks(stream_size) /\ remaining(stream_size) # 0
       THEN remaining(stream_size)
       ELSE 0

\* recv.read_to_end(100): Ok with the whole message, or Err(TooLong).
read_to_end_truncating(len) == TRUE
read_to_end_ok(len) == len <= GREETING_CAP

\* tokio::time::timeout(Duration::from_secs(3), ..): the deadline has come
\* `waited` seconds after the timeout was created.
TimedOutLate(waited) == waited >= CLOSE_TIMEOUT + 1
TimedOut(waited) == waited >= CLOSE_TIMEOUT

\* matches!(closed, ConnectionError::ApplicationClosed(_))
IsApplicationClosedAlways(reason) == TRUE
IsApplicationClosed(reason) == reason = "app"

\* drain_stream: `bufs.iter().take(n).map(|buf| buf.len()).sum()`.
RECURSIVE SumBufs(_, _)
SumBufs(b, n) == IF n = 0 THEN 0 ELSE b[n] + SumBufs(b, n - 1)
SumAllBufs(b, n) == SumBufs(b, NUM_BUFS)
SumTake(b, n) == SumBufs(b, n)

\* fetch: `(len as f64 / duration.as_secs_f64()) as u64`. The division is
\* done whatever the duration; by_zero tells that the divisor was zero (the
\* float is then NaN or +inf and the cast gives 0 or u64::MAX).
Rate(len, duration) ==
  IF duration = 0
  THEN [by_zero |-> TRUE, saturated |-> len # 0, value |-> 0]
  ELSE [by_zero |-> FALSE, saturated |-> FALSE, value |-> len \div duration]

\* ------------------------------------------------------------------ state
VARIABLES
  \* Provider (provide)
  size,        \* the `size` argument of provide
  loopPc,      \* where the accept loop is: "accept", "handshake", "returned_err"
  attempts,    \* what became of each incoming attempt, in order of arrival
  warnings,    \* number of `tracing::warn!("incoming connection failed")`
  tasks,       \* the spawned task of each connection (see IdleTask)
  \* transport state of the one connection whose peer is `fetch`
  link,        \* "none", "open", "closed_f", "closed_p", "lost"
  greeting,    \* the Fetcher's outbound stream: [len, fin]
  delivered,   \* payload bytes that have arrived at the Fetcher
  units,       \* data units arrived at the Fetcher and not yet read
  finSeen,     \* the FIN of the payload stream has arrived at the Fetcher
  nsplit,      \* data units the transport has cut so far
  \* Fetcher (fetch, drain_stream)
  fconn,       \* the Provider's connection the Fetcher is the peer of, 0 if none
  fpc,         \* where fetch is
  ferr,        \* why fetch returned Err
  elapsed,     \* seconds since `start = Instant::now()`
  drain,       \* locals of drain_stream
  len,         \* byte count drain_stream returned, -1 before
  closeStart,  \* `elapsed` when the close timeout was created, -1 before
  report,      \* what fetch printed
  ticket,      \* the `ticket` argument of fetch: "valid" or "corrupt"
  \* drain_stream(stream, true), run on the same payload as the ordered drain
  uunits,      \* data units arrived and not yet returned by read_chunk
  udrain,      \* locals of the unordered drain_stream
  ulen         \* byte count the unordered drain_stream returned, -1 before

pvars == <<size, loopPc, attempts, warnings, tasks>>
xvars == <<link, greeting, delivered, units, finSeen, nsplit>>
uvars == <<uunits, udrain, ulen>>
fvars == <<fconn, fpc, ferr, elapsed, drain, len, closeStart, report,
           ticket, uvars>>
vars == <<size, loopPc, attempts, warnings, tasks,
          link, greeting, delivered, units, finSeen, nsplit,
          fconn, fpc, ferr, elapsed, drain, len, closeStart, report,
          ticket, uunits, udrain, ulen>>

\* A connection slot before its task is spawned.
\*   pc:       "idle", "accept_bi", "read_greeting", "write", "stopped",
\*             "closewait", "done_ok", "done_err"
\*   greet:    the greeting that arrived on the task's recv stream
\*   message:  length of the `message` String the task accepted, -1 if none
\*   writes:   sizes of the chunks written by write_chunk, in order
\*   finished: stream.finish() returned Ok
\*   err:      the error the task returned with
\*   closed:   how the close-wait ended: "app", "other", "timeout"
\*   printed:  what the close-wait printed: "anomaly", "timeout"
\*   timer:    seconds spent in the close-wait
IdleTask ==
  [pc |-> "idle", greet |-> NoGreeting, message |-> -1, writes |-> <<>>,
   finished |-> FALSE, err |-> "none", closed |-> "none", printed |-> "none",
   timer |-> 0]

\*   n: the `n` of the last `Some(n)` of read_chunks, 0 before
NoDrain ==
  [read |-> 0, num_chunks |-> 0, first_byte |-> TRUE, time_to_first_byte |-> 0,
   download_start |-> 0, bufs |-> [i \in 1..NUM_BUFS |-> 0], n |-> 0]

\* Locals of drain_stream in unordered mode (no buffer pool).
\*   reordered: a chunk was returned after one of a higher stream offset
\*   top:       the highest offset returned so far
NoUDrain ==
  [read |-> 0, num_chunks |-> 0, first_byte |-> TRUE, time_to_first_byte |-> 0,
   download_start |-> 0, reordered |-> FALSE, top |-> -1]

\*   close_failed: "failed to close connection" was printed
NoReport ==
  [emitted |-> FALSE, len |-> 0, duration |-> 0, time_to_first_byte |-> 0,
   chnk |-> 0, rate |-> Rate(0, 1), close_failed |-> FALSE]

InitCommon ==
  /\ loopPc = "accept"
  /\ attempts = <<>>
  /\ warnings = 0
  /\ tasks = [c \in Conns |-> IdleTask]
  /\ link = "none"
  /\ greeting = [len |-> 0, fin |-> FALSE]
  /\ delivered = 0
  /\ units = <<>>
  /\ finSeen = FALSE
  /\ nsplit = 0
  /\ fconn = 0
  /\ ferr = "none"
  /\ elapsed = 0
  /\ drain = NoDrain
  /\ len = -1
  /\ closeStart = -1
  /\ report = NoReport
  /\ uunits = <<>>
  /\ udrain = NoUDrain
  /\ ulen = -1

\* A Provider alone, its peers being whatever connects.
Init ==
  /\ size \in SizesProvide
  /\ fpc = "absent"
  /\ ticket = "valid"
  /\ InitCommon

\* -------------------------------------------------- the peer, seen by a task
IsFetch(c) == c = fconn

\* The peer's stream has become known to the Provider (accept_bi resolves).
PeerOpenedStream(c) == IsFetch(c) => (greeting.len > 0 \/ greeting.fin)

\* The greetings read_to_end may see complete: the peer has finished its
\* stream, or more than the cap has arrived.
ArrivedGreetings(c) ==
  IF IsFetch(c)
  THEN IF greeting.fin \/ greeting.len > GREETING_CAP
       THEN {[len |-> greeting.len, utf8 |-> TRUE]}
       ELSE {}
  ELSE Greetings

\* The connection can carry the task's next operation.
LinkUp(c) == IsFetch(c) => link = "open"

\* The connection may have failed under the task's pending operation.
LinkDown(c) == IsFetch(c) => link \in {"closed_f", "lost"}

Written(c) == SumSeq(tasks[c].writes)

\* stopped(): every byte and the FIN have been acknowledged by the peer.
Acked(c) == IsFetch(c) => (delivered = Written(c) /\ finSeen)

\* conn.closed(): the reasons the connection may have ended with.
CloseReasons(c) ==
  IF IsFetch(c)
  THEN IF link = "closed_f" THEN {"app"}
       ELSE IF link = "lost" THEN {"other"} ELSE {}
  ELSE {"app", "other"}

\* The process runs until provide returns (main then returns its error and
\* the runtime drops every task).
Running == loopPc # "returned_err"

\* The task of connection c ends: its Connection and streams are dropped.
DropConn(c) ==
  link' = IF IsFetch(c) /\ link = "open" THEN "closed_p" ELSE link

SetTask(c, t) == tasks' = [tasks EXCEPT ![c] = t]

\* ------------------------------------------------------- provide: the loop
\* `endpoint.accept().await` yields an incoming attempt and
\* `incoming.accept()` takes it (ok) or rejects it.
ProvideAcceptNoWarn(ok) ==
  /\ loopPc = "accept"
  /\ Len(attempts) < MaxAttempts
  /\ IF ok
     THEN /\ attempts' = Append(attempts, "pending")
          /\ loopPc' = "handshake"
     ELSE /\ attempts' = Append(attempts, "rejected")
          /\ loopPc' = "accept"
  /\ warnings' = warnings
  /\ UNCHANGED <<size, tasks>>

ProvideAccept(ok) ==
  /\ loopPc = "accept"
  /\ Len(attempts) < MaxAttempts
  /\ IF ok
     THEN /\ attempts' = Append(attempts, "pending")
          /\ loopPc' = "handshake"
          /\ warnings' = warnings
     ELSE \* tracing::warn!; continue
          /\ attempts' = Append(attempts, "rejected")
          /\ loopPc' = "accept"
          /\ warnings' = warnings + 1
  /\ UNCHANGED <<size, tasks>>

\* An attempt of a peer other than `fetch`.
AcceptPeer(ok) ==
  /\ ProvideAccept(ok)
  /\ UNCHANGED <<xvars, fvars>>

\* `connecting.await?` then `get_remote_node_id(&conn)?` then tokio::spawn.
\* outcome: "spawned", "hs_failed" (the handshake), "id_failed".
ProvideHandshake(outcome) ==
  LET c == Len(attempts) IN
  /\ loopPc = "handshake"
  /\ attempts' = [attempts EXCEPT ![c] = outcome]
  /\ IF outcome = "spawned"
     THEN /\ loopPc' = "accept"
          /\ SetTask(c, [IdleTask EXCEPT !.pc = "accept_bi"])
          /\ link' = IF IsFetch(c) THEN "open" ELSE link
     ELSE \* the `?` returns from provide
          /\ loopPc' = "returned_err"
          /\ tasks' = tasks
          /\ link' = IF IsFetch(c) THEN "lost" ELSE link
  /\ UNCHANGED <<size, warnings, greeting, delivered, units, finSeen, nsplit, fvars>>

\* --------------------------------------------- provide: the spawned task
\* A step of the task of connection c leaves it as t; a task that has ended
\* has dropped its connection.
TaskStep(c, t) ==
  /\ SetTask(c, t)
  /\ IF t.pc \in {"done_ok", "done_err"} THEN DropConn(c) ELSE link' = link
  /\ UNCHANGED <<size, loopPc, attempts, warnings,
                 greeting, delivered, units, finSeen, nsplit, fvars>>

Fail(t, why) == [t EXCEPT !.pc = "done_err", !.err = why]

\* stream.finish() may fail once the connection is gone.
FinishOutcomes(c) == {TRUE} \cup (IF LinkDown(c) THEN {FALSE} ELSE {})

\* send_data_on_stream after its last write_chunk: finish(), then stopped()
\* is awaited.
AfterWrites(t, finOk) ==
  IF finOk
  THEN [t EXCEPT !.finished = TRUE, !.pc = "stopped"]
  ELSE Fail(t, "failed finishing stream")

\* send_data_on_stream from its call to its first await.
EnterSendWrites(t, finOk) == [t EXCEPT !.pc = "write"]
EnterSend(t, finOk) ==
  IF NextChunk(size, 0) # 0 THEN [t EXCEPT !.pc = "write"]
  ELSE AfterWrites(t, finOk)

\* `conn.accept_bi().await?` resolves with the peer's stream.
TaskAcceptBi(c) ==
  /\ Running
  /\ tasks[c].pc = "accept_bi"
  /\ PeerOpenedStream(c)
  /\ TaskStep(c, [tasks[c] EXCEPT !.pc = "read_greeting"])

\* `recv.read_to_end(100).await?`, `String::from_utf8(message)?`, println!,
\* and the call of send_data_on_stream up to its first await.
TaskReadGreeting(c, g, finOk) ==
  /\ Running
  /\ tasks[c].pc = "read_greeting"
  /\ g \in ArrivedGreetings(c)
  /\ finOk \in FinishOutcomes(c)
  /\ LET t == [tasks[c] EXCEPT !.greet = g] IN
     TaskStep(c,
       IF ~read_to_end_ok(g.len) THEN Fail(t, "greeting too long")
       ELSE IF ~g.utf8 THEN Fail(t, "greeting not utf8")
       ELSE EnterSend([t EXCEPT !.message = Min(g.len, GREETING_CAP)], finOk))

\* One `stream.write_chunk(..).await` returns Ok; the loop goes on to the
\* next write, or to finish() after the last.
TaskWriteChunk(c, finOk) ==
  /\ Running
  /\ tasks[c].pc = "write"
  /\ LinkUp(c)
  /\ finOk \in FinishOutcomes(c)
  /\ LET done == Len(tasks[c].writes)
         t == [tasks[c] EXCEPT !.writes = Append(@, NextChunk(size, done))]
     IN TaskStep(c, IF NextChunk(size, done + 1) # 0 THEN t
                    ELSE AfterWrites(t, finOk))

\* `stream.stopped().await` returns Ok, send_data_on_stream returns Ok and
\* the task creates the timeout around conn.closed().
TaskStopped(c) ==
  /\ Running
  /\ tasks[c].pc = "stopped"
  /\ Acked(c)
  /\ TaskStep(c, [tasks[c] EXCEPT !.pc = "closewait", !.timer = 0])

\* `conn.closed().await` resolves before the timeout.
TaskClosed(c, reason) ==
  /\ Running
  /\ tasks[c].pc = "closewait"
  /\ reason \in CloseReasons(c)
  /\ TaskStep(c, [tasks[c] EXCEPT
       !.pc = "done_ok",
       !.closed = reason,
       !.printed = IF IsApplicationClosed(reason) THEN "none" ELSE "anomaly"])

\* The timeout elapses first: `res.is_err()`.
TaskCloseTimeout(c) ==
  /\ Running
  /\ tasks[c].pc = "closewait"
  /\ TimedOut(tasks[c].timer)
  /\ TaskStep(c, [tasks[c] EXCEPT
       !.pc = "done_ok", !.closed = "timeout", !.printed = "timeout"])

\* The error an awaited operation of the task returns through `?`.
AwaitErrorOneTag(pc) == "failed sending data"
AwaitError(pc) ==
  CASE pc = "accept_bi" -> "accept_bi failed"
    [] pc = "read_greeting" -> "read failed"
    [] pc = "write" -> "failed sending data"
    [] pc = "stopped" -> "failed to wait for stream to be stopped"

\* The operation the task awaits fails (the connection is gone).
TaskAwaitFails(c) ==
  /\ Running
  /\ tasks[c].pc \in {"accept_bi", "read_greeting", "write", "stopped"}
  /\ LinkDown(c)
  /\ TaskStep(c, Fail(tasks[c], AwaitError(tasks[c].pc)))

\* ------------------------------------------------------------------- time
FetchClockRuns ==
  fpc \in {"addrs", "connect", "open_bi", "write_all", "drain", "closing"}

\* A task is in its close-wait (and the Provider's process is alive).
Waiting(c) == Running /\ tasks[c].pc = "closewait"

\* A close-wait whose deadline has come is served before time moves on.
DeadlinePending ==
  \/ \E c \in Conns : Waiting(c) /\ TimedOut(tasks[c].timer)
  \/ fpc = "closing" /\ TimedOut(elapsed - closeStart)

\* One second passes.
Tick ==
  /\ FetchClockRuns \/ \E c \in Conns : Waiting(c)
  /\ ~DeadlinePending
  /\ FetchClockRuns => elapsed < MaxTime
  /\ elapsed' = IF FetchClockRuns THEN elapsed + 1 ELSE elapsed
  /\ tasks' = [c \in Conns |->
                 IF Waiting(c)
                 THEN [tasks[c] EXCEPT !.timer = @ + 1] ELSE tasks[c]]
  /\ UNCHANGED <<size, loopPc, attempts, warnings, xvars,
                 fconn, fpc, ferr, drain, len, closeStart, report,
                 ticket, uvars>>

\* ---------------------------------------------------------------- fetch
FetchStep(pc) ==
  /\ fpc' = pc
  /\ UNCHANGED <<pvars, xvars, fconn, ferr, elapsed, drain, len, closeStart,
                 report, ticket, uvars>>

FetchFail(why) ==
  /\ fpc' = "done_err"
  /\ ferr' = why
  /\ UNCHANGED <<pvars, xvars, fconn, elapsed, drain, len, closeStart, report,
                 ticket, uvars>>

\* NodeTicket::from_str: the string decodes to a ticket.
ticket_parses(t) == t = "valid"

\* `ticket.parse()?` and `RelayUrl::from_str(&relay_url)?`; bind() is awaited.
FetchResolveLate(ticketOk, relayOk) ==
  /\ fpc = "resolve"
  /\ IF ~relayOk THEN FetchFail("relay url does not parse")
     ELSE FetchStep("bind")

FetchResolve(ticketOk, relayOk) ==
  /\ fpc = "resolve"
  /\ IF ~ticketOk THEN FetchFail("ticket does not parse")
     ELSE IF ~relayOk THEN FetchFail("relay url does not parse")
     ELSE FetchStep("bind")

\* `Endpoint::builder()...bind().await?`, then `start = Instant::now()`.
FetchBind(ok) ==
  /\ fpc = "bind"
  /\ IF ok THEN FetchStep("addrs") ELSE FetchFail("bind failed")

\* `direct_addresses().next().await.context("no endpoints")?`, then
\* `home_relay().expect(..)`, then connect() is awaited.
FetchAddrs(outcome) ==
  /\ fpc = "addrs"
  /\ IF outcome = "no_endpoints" THEN FetchFail("no endpoints")
     ELSE IF outcome = "no_relay" THEN FetchStep("panicked")
     ELSE FetchStep("connect")

\* The Fetcher's connection attempt reaches the Provider's accept loop.
AcceptFetch ==
  /\ fpc = "connect"
  /\ fconn = 0
  /\ ProvideAccept(TRUE)
  /\ fconn' = Len(attempts) + 1
  /\ UNCHANGED <<xvars, fpc, ferr, elapsed, drain, len, closeStart, report,
                 ticket, uvars>>

\* `endpoint.connect(..).await?` returns the connection; open_bi() is awaited.
FetchConnected ==
  /\ fpc = "connect"
  /\ fconn > 0
  /\ attempts[fconn] = "spawned"
  /\ link = "open"
  /\ FetchStep("open_bi")

\* `conn.open_bi().await?`; write_all() is awaited.
FetchOpenBi ==
  /\ fpc = "open_bi"
  /\ link = "open"
  /\ FetchStep("write_all")

\* `send.write_all(message.as_bytes()).await?`, `send.finish()?`, and
\* drain_stream(&mut recv, false) up to its first read_chunks().await.
FetchWriteAllNoFinish ==
  /\ fpc = "write_all"
  /\ link = "open"
  /\ greeting' = [len |-> NODE_ID_LEN + HELLO_SUFFIX_LEN, fin |-> FALSE]
  /\ drain' = [NoDrain EXCEPT !.download_start = elapsed]
  /\ fpc' = "drain"
  /\ UNCHANGED <<pvars, link, delivered, units, finSeen, nsplit,
                 fconn, ferr, elapsed, len, closeStart, report, ticket, uvars>>

FetchWriteAll ==
  /\ fpc = "write_all"
  /\ link = "open"
  /\ greeting' = [len |-> NODE_ID_LEN + HELLO_SUFFIX_LEN, fin |-> TRUE]
  /\ drain' = [NoDrain EXCEPT !.download_start = elapsed]
  /\ fpc' = "drain"
  /\ UNCHANGED <<pvars, link, delivered, units, finSeen, nsplit,
                 fconn, ferr, elapsed, len, closeStart, report, ticket, uvars>>

\* drain_stream: `if first_byte { time_to_first_byte =
\* download_start.elapsed(); first_byte = false; }`.
FirstByteTimeAlways(first_byte, time_to_first_byte, now) == now
FirstByteTime(first_byte, time_to_first_byte, now) ==
  IF first_byte THEN now ELSE time_to_first_byte

\* drain_stream, ordered: `stream.read_chunks(&mut bufs[..]).await?` is
\* Some(n), the first n buffers holding the data units that had arrived.
FetchReadChunks ==
  /\ fpc = "drain"
  /\ units # <<>>
  /\ LET n == Min(NUM_BUFS, Len(units))
         filled == [i \in 1..NUM_BUFS |->
                      IF i <= n THEN units[i] ELSE drain.bufs[i]]
     IN /\ drain' = [drain EXCEPT
              !.bufs = filled,
              !.n = n,
              !.time_to_first_byte =
                 FirstByteTime(drain.first_byte, @,
                               elapsed - drain.download_start),
              !.first_byte = FALSE,
              !.read = @ + SumTake(filled, n),
              !.num_chunks = @ + 1]
        /\ units' = SubSeq(units, n + 1, Len(units))
  /\ UNCHANGED <<pvars, link, greeting, delivered, finSeen, nsplit,
                 fconn, fpc, ferr, elapsed, len, closeStart, report,
                 ticket, uvars>>

\* read_chunks() is None: drain_stream returns Ok((read, ..)) and fetch
\* creates the timeout around endpoint.close(), which asks for the close.
FetchDrainEnd ==
  /\ fpc = "drain"
  /\ units = <<>>
  /\ finSeen
  /\ len' = drain.read
  /\ closeStart' = elapsed
  /\ link' = IF link = "open" THEN "closed_f" ELSE link
  /\ fpc' = "closing"
  /\ UNCHANGED <<pvars, greeting, delivered, units, finSeen, nsplit,
                 fconn, ferr, elapsed, drain, report, ticket, uvars>>

\* `endpoint.close().await` returns within the timeout, Ok or Err; then
\* `duration = start.elapsed()` and the two println! of the report.
FetchCloseDone(ok) ==
  /\ fpc = "closing"
  /\ report' = [emitted |-> TRUE, len |-> len, duration |-> elapsed,
                time_to_first_byte |-> drain.time_to_first_byte,
                chnk |-> drain.num_chunks, rate |-> Rate(len, elapsed),
                close_failed |-> ~ok]
  /\ fpc' = "done_ok"
  /\ UNCHANGED <<pvars, xvars, fconn, ferr, elapsed, drain, len, closeStart,
                 ticket, uvars>>

\* The timeout around endpoint.close() elapses: `.await?` returns the error.
FetchCloseTimeout ==
  /\ fpc = "closing"
  /\ TimedOut(elapsed - closeStart)
  /\ FetchFail("close timed out")

\* The error an awaited operation of fetch returns through `?`.
FetchAwaitError(pc) ==
  CASE pc = "connect" -> "connect failed"
    [] pc = "open_bi" -> "open_bi failed"
    [] pc = "write_all" -> "write_all failed"
    [] pc = "drain" -> "drain failed"

\* The operation fetch awaits fails (the connection is gone).
FetchAwaitFails ==
  /\ fpc \in {"connect", "open_bi", "write_all", "drain"}
  /\ link \in {"closed_p", "lost"}
  /\ FetchFail(FetchAwaitError(fpc))

\* ------------------------------------------------------------ transport
\* The sizes of the data unit the transport may make of `avail` bytes.
Splits(avail) ==
  {avail} \cup (IF nsplit < MaxSplits
                THEN {u \in {1, avail \div 2} : 0 < u /\ u < avail}
                ELSE {})

\* The transport delivers some of the written bytes to the Fetcher as one
\* data unit.
Deliver ==
  /\ fconn > 0
  /\ link = "open"
  /\ \E u \in Splits(Written(fconn) - delivered) :
       /\ u > 0
       /\ delivered' = delivered + u
       /\ units' = Append(units, u)
       /\ nsplit' = IF u < Written(fconn) - delivered THEN nsplit + 1
                    ELSE nsplit
  /\ UNCHANGED <<pvars, link, greeting, finSeen, fvars>>

\* The FIN of the finished stream arrives after its last byte.
DeliverFin ==
  /\ fconn > 0
  /\ link = "open"
  /\ tasks[fconn].finished
  /\ delivered = Written(fconn)
  /\ ~finSeen
  /\ finSeen' = TRUE
  /\ UNCHANGED <<pvars, link, greeting, delivered, units, nsplit, fvars>>

\* The connection breaks (idle timeout, reset).
LinkLost ==
  /\ link = "open"
  /\ link' = "lost"
  /\ UNCHANGED <<pvars, greeting, delivered, units, finSeen, nsplit, fvars>>

\* ------------------------------------------- the Provider and its peers
Next ==
  \/ \E ok \in BOOLEAN : AcceptPeer(ok)
  \/ \E o \in {"spawned", "hs_failed", "id_failed"} : ProvideHandshake(o)
  \/ \E c \in Conns : TaskAcceptBi(c)
  \/ \E c \in Conns, g \in Greetings, finOk \in BOOLEAN :
       TaskReadGreeting(c, g, finOk)
  \/ \E c \in Conns, finOk \in BOOLEAN : TaskWriteChunk(c, finOk)
  \/ \E c \in Conns : TaskStopped(c)
  \/ \E c \in Conns, r \in {"app", "other"} : TaskClosed(c, r)
  \/ \E c \in Conns : TaskCloseTimeout(c)
  \/ \E c \in Conns : TaskAwaitFails(c)
  \/ Tick

Spec == Init /\ [][Next]_vars

\* --------------------------------------- one Fetcher and the Provider
InitTransfer ==
  /\ size \in Sizes
  /\ fpc = "resolve"
  /\ ticket \in Tickets
  /\ InitCommon

NextTransfer ==
  \/ \E r \in BOOLEAN : FetchResolve(ticket_parses(ticket), r)
  \/ \E ok \in BOOLEAN : FetchBind(ok)
  \/ \E o \in {"ok", "no_endpoints", "no_relay"} : FetchAddrs(o)
  \/ AcceptFetch
  \/ \E o \in {"spawned", "hs_failed", "id_failed"} : ProvideHandshake(o)
  \/ FetchConnected
  \/ FetchOpenBi
  \/ FetchWriteAll
  \/ \E c \in Conns : TaskAcceptBi(c)
  \/ \E c \in Conns, finOk \in BOOLEAN :
       \E g \in ArrivedGreetings(c) : TaskReadGreeting(c, g, finOk)
  \/ \E c \in Conns, finOk \in BOOLEAN : TaskWriteChunk(c, finOk)
  \/ Deliver
  \/ DeliverFin
  \/ LinkLost
  \/ \E c \in Conns : TaskStopped(c)
  \/ FetchReadChunks
  \/ FetchDrainEnd
  \/ FetchAwaitFails
  \/ \E c \in Conns : TaskAwaitFails(c)
  \/ \E c \in Conns, r \in {"app", "other"} : TaskClosed(c, r)
  \/ \E c \in Conns : TaskCloseTimeout(c)
  \/ \E ok \in BOOLEAN : FetchCloseDone(ok)
  \/ FetchCloseTimeout
  \/ Tick

SpecTransfer == InitTransfer /\ [][NextTransfer]_vars

\* ------------------ one Fetcher and the Provider on a transport that works
\* Every operation on the connection succeeds: what is written is delivered,
\* the acknowledgement of the last byte reaches the Provider no later than
\* the Fetcher's close, and no connection is lost.  Time passes freely, so
\* the two 3-second timeouts may still expire.
InitLive ==
  /\ size \in Sizes
  /\ fpc = "resolve"
  /\ ticket = "valid"
  /\ InitCommon

\* The steps of the Provider: its accept loop and its tasks.
ProviderLive ==
  \/ ProvideHandshake("spawned")
  \/ \E c \in Conns : TaskAcceptBi(c)
  \/ \E c \in Conns : \E g \in ArrivedGreetings(c) : TaskReadGreeting(c, g, TRUE)
  \/ \E c \in Conns : TaskWriteChunk(c, TRUE)
  \/ \E c \in Conns : TaskStopped(c)
  \/ \E c \in Conns : \E r \in CloseReasons(c) : TaskClosed(c, r)
  \/ \E c \in Conns : TaskCloseTimeout(c)

\* The steps of fetch.
FetchLive ==
  \/ FetchResolve(ticket_parses(ticket), TRUE)
  \/ FetchBind(TRUE)
  \/ FetchAddrs("ok")
  \/ FetchConnected
  \/ FetchOpenBi
  \/ FetchWriteAll
  \/ FetchReadChunks
  \/ FetchDrainEnd
  \/ \E ok \in BOOLEAN : FetchCloseDone(ok)
  \/ FetchCloseTimeout

\* The steps of the transport.
TransportLive ==
  \/ AcceptFetch
  \/ Deliver
  \/ DeliverFin

NextLive ==
  \/ ProviderLive
  \/ FetchLive
  \/ TransportLive
  \/ Tick

\* tokio runs every task that can make a step, and the transport delivers.
SpecLive ==
  /\ InitLive
  /\ [][NextLive]_vars
  /\ WF_vars(ProviderLive)
  /\ WF_vars(FetchLive)
  /\ WF_vars(TransportLive)

\* ------------------------------ drain_stream in its two modes, side by side
\* One payload of `size` bytes, written and finished by its sender, is read
\* by drain_stream(stream, false) (drain, units, len) and by
\* drain_stream(stream, true) (udrain, uunits, ulen).  Both calls start at
\* time 0.  Each data unit bears its stream offset.
InitDrain ==
  /\ size \in Sizes
  /\ fpc = "drain"
  /\ ticket = "valid"
  /\ InitCommon

\* The transport makes one more data unit of the payload; each reader gets it.
DrainDeliver ==
  /\ delivered < size
  /\ \E u \in {1, (size - delivered) \div 2, size - delivered} :
       /\ u > 0
       /\ u < size - delivered => nsplit + 1 < MaxUnits
       /\ delivered' = delivered + u
       /\ units' = Append(units, u)
       /\ uunits' = Append(uunits, [offset |-> delivered, len |-> u])
       /\ nsplit' = nsplit + 1
  /\ UNCHANGED <<pvars, link, greeting, finSeen, fconn, fpc, ferr, elapsed,
                 drain, len, closeStart, report, ticket, udrain, ulen>>

\* The end of the stream arrives after its last byte.
DrainFin ==
  /\ delivered = size
  /\ ~finSeen
  /\ finSeen' = TRUE
  /\ UNCHANGED <<pvars, link, greeting, delivered, units, nsplit, fvars>>

\* Ordered mode: read_chunks() is None and drain_stream returns
\* Ok((read, time_to_first_byte, num_chunks)).
DrainOrderedReturn ==
  /\ fpc = "drain"
  /\ units = <<>>
  /\ finSeen
  /\ len' = drain.read
  /\ fpc' = "drained"
  /\ UNCHANGED <<pvars, xvars, fconn, ferr, elapsed, drain, closeStart, report,
                 ticket, uvars>>

\* `chunk.bytes.len()` of a chunk read_chunk returned.
chunk_offset(chunk) == chunk.offset
chunk_bytes_len(chunk) == chunk.len

\* Unordered mode: `stream.read_chunk(usize::MAX, false).await?` is
\* Some(chunk), any one of the data units that have arrived.
DrainReadChunk(i) ==
  /\ ulen = -1
  /\ i \in 1..Len(uunits)
  /\ LET chunk == uunits[i]
     IN udrain' = [udrain EXCEPT
           !.time_to_first_byte =
              FirstByteTime(udrain.first_byte, @,
                            elapsed - udrain.download_start),
           !.first_byte = FALSE,
           !.read = @ + chunk_bytes_len(chunk),
           !.num_chunks = @ + 1,
           !.reordered = @ \/ chunk.offset < udrain.top,
           !.top = IF chunk.offset > @ THEN chunk.offset ELSE @]
  /\ uunits' = [j \in 1..(Len(uunits) - 1) |->
                  IF j < i THEN uunits[j] ELSE uunits[j + 1]]
  /\ UNCHANGED <<pvars, xvars, fconn, fpc, ferr, elapsed, drain, len,
                 closeStart, report, ticket, ulen>>

\* Unordered mode: read_chunk() is None and drain_stream returns.
DrainUnorderedReturn ==
  /\ ulen = -1
  /\ uunits = <<>>
  /\ finSeen
  /\ ulen' = udrain.read
  /\ UNCHANGED <<pvars, xvars, fconn, fpc, ferr, elapsed, drain, len,
                 closeStart, report, ticket, uunits, udrain>>

\* One second passes while a drain is running.
DrainTick ==
  /\ fpc = "drain" \/ ulen = -1
  /\ elapsed < MaxTime
  /\ elapsed' = elapsed + 1
  /\ UNCHANGED <<pvars, xvars, fconn, fpc, ferr, drain, len, closeStart,
                 report, ticket, uvars>>

NextDrain ==
  \/ DrainDeliver
  \/ DrainFin
  \/ FetchReadChunks
  \/ DrainOrderedReturn
  \/ \E i \in 1..MaxUnits : DrainReadChunk(i)
  \/ DrainUnorderedReturn
  \/ DrainTick

SpecDrain == InitDrain /\ [][NextDrain]_vars

\* ================================================================ claims
Ended(t) == t.pc \in {"done_ok", "done_err"}

\* The chunks floor(S/C) times C, then S mod C when it is not zero.
ExpectedWrites(S) ==
  [i \in 1..((S \div CHUNK) + (IF S % CHUNK # 0 THEN 1 ELSE 0)) |->
     IF i <= S \div CHUNK THEN CHUNK ELSE S % CHUNK]

IsPrefix(s, t) == Len(s) <= Len(t) /\ \A i \in 1..Len(s) : s[i] = t[i]

\* The task has got past its last write_chunk without a write failure.
PastWrites(t) ==
  \/ t.pc \in {"stopped", "closewait", "done_ok"}
  \/ t.err \in {"failed finishing stream",
                "failed to wait for stream to be stopped"}

\* C1: once drain_stream has returned Ok on the stream written by
\* send_data_on_stream(size), the byte count it returned is exactly size,
\* whatever the data units the transport made of the written bytes.
C1_ByteConservation == len # -1 => len = size

\* C1 witness: a payload of two chunks and a byte, cut by the transport and
\* read in several read calls, has been drained to its end.
C1_Witness ==
  /\ len = 2 * CHUNK + 1
  /\ size = 2 * CHUNK + 1
  /\ nsplit >= 1
  /\ drain.num_chunks >= 2

\* C2: a send_data_on_stream call without write failure has written
\* floor(size/CHUNK) chunks of CHUNK bytes and then one chunk of
\* size mod CHUNK bytes if that is not zero, and nothing else; at any
\* moment what it has written is a prefix of that sequence.
C2_Chunking ==
  \A c \in Conns :
    /\ IsPrefix(tasks[c].writes, ExpectedWrites(size))
    /\ PastWrites(tasks[c]) => tasks[c].writes = ExpectedWrites(size)
    /\ (PastWrites(tasks[c]) /\ size = 2 * CHUNK + 1)
         => tasks[c].writes = <<CHUNK, CHUNK, 1>>

\* C2 witness: the writer has finished a payload of 2*CHUNK + 1 bytes.
C2_Witness ==
  \E c \in Conns :
    /\ tasks[c].finished
    /\ size = 2 * CHUNK + 1
    /\ Len(tasks[c].writes) = 3

\* C3 (as claimed): whatever fails for one incoming attempt or connection,
\* the accept loop of provide never returns.
C3_LoopNeverReturns == loopPc # "returned_err"

\* C4: after N attempts rejected at accept and then one valid attempt, the
\* Provider has warned exactly N times, has spawned exactly one task, that
\* task carries one transfer of size bytes (complete once the task has ended
\* Ok), and the accept loop has not returned.
C4_Resilience ==
  \A n \in 0..(MaxAttempts - 1) :
    ( /\ Len(attempts) = n + 1
      /\ \A i \in 1..n : attempts[i] = "rejected"
      /\ attempts[n + 1] = "spawned" )
    => /\ warnings = n
       /\ {c \in Conns : tasks[c].pc # "idle"} = {n + 1}
       /\ loopPc = "accept"
       /\ SumSeq(tasks[n + 1].writes) <= size
       /\ tasks[n + 1].pc = "done_ok"
            => (tasks[n + 1].finished /\ SumSeq(tasks[n + 1].writes) = size)

\* C4 witness: one rejected attempt, then a valid one whose task has ended
\* after a clean close by its peer.
C4_Witness ==
  /\ attempts = <<"rejected", "spawned">>
  /\ warnings = 1
  /\ tasks[2].pc = "done_ok"
  /\ tasks[2].closed = "app"

\* The connection of attempt c is somewhere between the arrival of the
\* attempt and Closed, possibly stalled or failed there.
InFlight(c) ==
  \/ attempts[c] \in {"pending", "hs_failed", "id_failed"}
  \/ attempts[c] = "spawned" /\ tasks[c].pc # "done_ok"

\* C5 (as claimed): while a connection is in any phase between the arrival
\* of its attempt and Closed, the accept loop is at its accept point, ready
\* to take a second incoming connection.
C5_AcceptWhileBusy ==
  \A c \in 1..Len(attempts) : InFlight(c) => loopPc = "accept"

\* C6 (as claimed): once the drain has succeeded, fetch ends Ok with the
\* report emitted, whatever the outcome of the endpoint close.
C6_ReportAfterDrain ==
  (len # -1 /\ fpc \in {"done_ok", "done_err"})
    => (fpc = "done_ok" /\ report.emitted)

\* C7 (as claimed): the elapsed time of the report is fixed before the
\* endpoint close is requested: it contains no time spent closing.
C7_ElapsedFixedBeforeClose ==
  report.emitted => report.duration <= closeStart

\* C8: a task in the close-wait never waits more than 3 seconds, and one
\* whose peer did not signal close reports the timeout exactly 3 seconds
\* after it entered the close-wait, and ends; after 3 seconds in the
\* close-wait the timeout report is due.
C8_TimeoutAtBound ==
  \A c \in Conns :
    /\ tasks[c].pc = "closewait" => tasks[c].timer <= 3
    /\ tasks[c].closed = "timeout"
         => /\ tasks[c].timer = 3
            /\ tasks[c].printed = "timeout"
            /\ tasks[c].pc = "done_ok"
    /\ (Running /\ tasks[c].pc = "closewait" /\ tasks[c].timer = 3)
         => ENABLED TaskCloseTimeout(c)

\* C8 witness: a task has ended by the timeout of its close-wait.
C8_Witness ==
  \E c \in Conns : tasks[c].closed = "timeout" /\ tasks[c].pc = "done_ok"

\* C9: a task that has finished sending ends Ok, through exactly one of: a
\* clean application close within 3 seconds (nothing printed), another close
\* reason within 3 seconds (the anomaly printed, no timeout), or the timeout
\* (the timeout printed, no anomaly); it never ends with an error.
C9_ThreeOutcomes ==
  \A c \in Conns :
    LET t == tasks[c] IN
    /\ t.pc = "closewait" => (t.finished /\ t.err = "none" /\ t.closed = "none")
    /\ t.pc = "done_ok"
         => (t.closed \in {"app", "other", "timeout"} /\ t.err = "none")
    /\ t.closed # "none" => (t.pc = "done_ok" /\ SumSeq(t.writes) = size)
    /\ t.closed = "app" => (t.printed = "none" /\ t.timer <= 3)
    /\ t.closed = "other" => (t.printed = "anomaly" /\ t.timer <= 3)
    /\ t.closed = "timeout" => t.printed = "timeout"
    /\ t.pc = "done_err" => (t.closed = "none" /\ t.printed = "none")

\* C9 witness: one task has ended on an anomalous close, another on a
\* clean one.
C9_Witness ==
  \E c, d \in Conns :
    /\ tasks[c].closed = "other" /\ tasks[c].printed = "anomaly"
    /\ tasks[d].closed = "app" /\ tasks[d].pc = "done_ok"

\* The greeting of the task was too long, not UTF-8, or its read failed.
BadGreeting(t) ==
  \/ t.greet.len > 100
  \/ ~t.greet.utf8
  \/ t.err = "read failed"

C10_Aborted ==
  \A c \in Conns :
    LET t == tasks[c] IN
    /\ BadGreeting(t)
         => /\ t.pc = "done_err"
            /\ t.writes = <<>>
            /\ ~t.finished
            /\ t.closed = "none"
            /\ t.message = -1
    /\ t.message # -1
         => (t.message = t.greet.len /\ t.greet.len <= 100 /\ t.greet.utf8)

C10_OthersUnaffected ==
  \A c \in Conns :
    (tasks[c].pc = "read_greeting" /\ BadGreeting(tasks'[c]))
      => /\ loopPc' = loopPc
         /\ attempts' = attempts
         /\ warnings' = warnings
         /\ \A d \in Conns \ {c} : tasks'[d] = tasks[d]

\* C10: a task whose greeting is longer than 100 bytes, not UTF-8, or whose
\* read fails ends with an error, has written no payload byte and never
\* enters the close-wait; the step that aborts it changes neither the accept
\* loop nor any other task; an accepted message is the whole greeting, of at
\* most 100 bytes.
C10_GreetingAbort == []C10_Aborted /\ [][C10_OthersUnaffected]_vars

\* C10 witness: a task was aborted on a greeting of 101 bytes while another
\* task has sent its whole payload and the loop is still accepting.
C10_Witness ==
  \E c, d \in Conns :
    /\ tasks[c].greet.len = 101 /\ tasks[c].pc = "done_err"
    /\ tasks[d].finished /\ SumSeq(tasks[d].writes) = size /\ size > 0
    /\ loopPc = "accept"

\* C11: for one payload, drain_stream in ordered mode and in unordered mode
\* return the same byte count, whatever the order in which the data units
\* are handed out and however they are grouped into read calls; the chunk
\* counts are free to differ.
C11_SameByteCount == (len # -1 /\ ulen # -1) => len = ulen

\* Both drains have returned, the unordered one after reading the units out
\* of stream order, and the chunk counts differ.
C11_Witness ==
  /\ len # -1 /\ ulen # -1
  /\ size = 2 * CHUNK + 1
  /\ udrain.reordered
  /\ udrain.num_chunks = 3
  /\ drain.num_chunks = 1

\* C12: in both modes time_to_first_byte takes the time of the first read
\* that returns data, and no later read changes it: from that read on it is
\* the same in every state of the drain, up to the returned result.
C12_Step ==
  /\ ~drain.first_byte => drain'.time_to_first_byte = drain.time_to_first_byte
  /\ ~udrain.first_byte =>
       udrain'.time_to_first_byte = udrain.time_to_first_byte
  /\ (drain.first_byte /\ ~drain'.first_byte) =>
       /\ drain'.num_chunks = 1
       /\ drain'.time_to_first_byte = elapsed - drain.download_start
  /\ (udrain.first_byte /\ ~udrain'.first_byte) =>
       /\ udrain'.num_chunks = 1
       /\ udrain'.time_to_first_byte = elapsed - udrain.download_start
  /\ drain'.first_byte = (drain'.num_chunks = 0)
  /\ udrain'.first_byte = (udrain'.num_chunks = 0)

C12_FirstByteOnce == [][C12_Step]_vars

\* Both drains have made a later read at a later time than their first.
C12_Witness ==
  /\ drain.num_chunks >= 2 /\ drain.time_to_first_byte < elapsed
  /\ udrain.num_chunks >= 2 /\ udrain.time_to_first_byte < elapsed
  /\ drain.time_to_first_byte # udrain.time_to_first_byte
  /\ len # -1 /\ ulen # -1

\* C13: with a payload of 0 bytes the Provider writes no chunk and finishes
\* the stream in the step that accepted the greeting; the Fetcher's drain
\* returns 0 bytes in 0 chunks.
C13_ZeroPayload ==
  size = 0 =>
    /\ \A c \in Conns :
         /\ tasks[c].writes = <<>>
         /\ tasks[c].pc # "write"
         /\ tasks[c].message # -1 =>
              tasks[c].finished \/ tasks[c].err = "failed finishing stream"
    /\ delivered = 0 /\ units = <<>>
    /\ drain.read = 0 /\ drain.num_chunks = 0
    /\ len # -1 => len = 0

\* The drain of an empty payload has returned; the Provider has finished.
C13_Witness ==
  /\ size = 0
  /\ len = 0
  /\ fpc = "closing"
  /\ tasks[fconn].finished
  /\ tasks[fconn].message = NODE_ID_LEN + HELLO_SUFFIX_LEN

\* C14: a ticket that does not decode makes fetch fail at its first step,
\* and nothing later happens: no endpoint, no connection, no stream, no
\* drain, no report.
C14_BadTicket ==
  ~ticket_parses(ticket) =>
    /\ fpc \in {"resolve", "done_err"}
    /\ fpc = "done_err" => ferr = "ticket does not parse"
    /\ fconn = 0
    /\ link = "none"
    /\ greeting = [len |-> 0, fin |-> FALSE]
    /\ drain = NoDrain /\ len = -1
    /\ closeStart = -1
    /\ ~report.emitted

\* fetch has returned the decoding error; the Provider still waits for a
\* connection.
C14_Witness ==
  /\ ticket = "corrupt"
  /\ fpc = "done_err"
  /\ ferr = "ticket does not parse"
  /\ loopPc = "accept" /\ attempts = <<>>

\* C15: the report never divides the byte count by an elapsed time of zero;
\* the rate it prints is a defined, finite value.
C15_NoDivisionByZero ==
  report.emitted => (~report.rate.by_zero /\ ~report.rate.saturated)

\* C16: send_data_on_stream writes every chunk, then finishes, then waits
\* for the stop acknowledgement; a failure ends the call at its phase, with
\* the tag of that phase, and nothing later is done.
C16_PhaseInv ==
  \A c \in Conns :
    LET t == tasks[c]
        all == ExpectedWrites(size)
    IN /\ IsPrefix(t.writes, all)
       /\ t.finished => t.writes = all
       /\ t.pc \in {"stopped", "closewait", "done_ok"} => t.finished
       /\ t.err = "failed sending data" =>
            /\ t.pc = "done_err"
            /\ Len(t.writes) < Len(all)
            /\ ~t.finished
            /\ t.closed = "none"
       /\ t.err = "failed finishing stream" =>
            /\ t.pc = "done_err"
            /\ t.writes = all
            /\ ~t.finished
            /\ t.closed = "none"
       /\ t.err = AwaitError("stopped") =>
            /\ t.pc = "done_err"
            /\ t.finished
            /\ t.closed = "none"
       /\ AwaitError("stopped") \notin
            {"failed sending data", "failed finishing stream"}
       /\ AwaitError("write") = "failed sending data"

C16_Step ==
  \A c \in Conns : tasks[c].pc = "done_err" => tasks'[c] = tasks[c]

C16_Phases == []C16_PhaseInv /\ [][C16_Step]_vars

\* One call failed in its second chunk write, another in finish.
C16_Witness ==
  \E c, d \in Conns :
    /\ tasks[c].err = "failed sending data"
    /\ Len(tasks[c].writes) = 1
    /\ tasks[d].err = "failed finishing stream"
    /\ Len(tasks[d].writes) = 2

\* C17: in ordered mode a read call that fills n of the 32 buffers adds the
\* lengths of those n buffers, which are the n data units it took, and
\* nothing for the buffers from n on, which keep what an earlier call left
\* in them; every delivered byte is counted once.
C17_ReadCall ==
  drain'.num_chunks # drain.num_chunks =>
    LET n == drain'.n IN
    /\ 1 <= n /\ n <= NUM_BUFS
    /\ n = Len(units) - Len(units')
    /\ drain'.read = drain.read + SumSeq(SubSeq(units, 1, n))
    /\ \A i \in 1..NUM_BUFS :
         drain'.bufs[i] = IF i <= n THEN units[i] ELSE drain.bufs[i]

C17_CountedOnce == drain.read + SumSeq(units) = delivered

C17_PartialFill == []C17_CountedOnce /\ [][C17_ReadCall]_vars

\* A call filled one buffer while the second still held data of an earlier
\* call that had filled two.
C17_Witness ==
  /\ drain.num_chunks = 2
  /\ drain.n = 1
  /\ drain.bufs[2] > 0
  /\ drain.read = size
  /\ size = 2 * CHUNK + 1

\* C18: on the Fetcher's connection the Provider writes or finishes nothing
\* before it has read the greeting to its end of stream, which the Fetcher's
\* half-close makes; the Fetcher drains only after it wrote the whole
\* greeting and half-closed; a failed greeting write ends fetch with no
\* drain.
C18_GreetingFirst ==
  /\ \A c \in Conns :
       (tasks[c].writes # <<>> \/ tasks[c].finished
          \/ tasks[c].pc \in {"write", "stopped", "closewait", "done_ok"}) =>
         /\ tasks[c].message # -1
         /\ IsFetch(c) => (greeting.fin /\ tasks[c].message = greeting.len)
  /\ (fpc \in {"drain", "closing", "done_ok"} \/ len # -1
        \/ drain.num_chunks > 0 \/ delivered > 0) =>
       /\ greeting.fin
       /\ greeting.len = NODE_ID_LEN + HELLO_SUFFIX_LEN
  /\ ferr = FetchAwaitError("write_all") =>
       /\ fpc = "done_err"
       /\ ~greeting.fin
       /\ drain = NoDrain /\ len = -1 /\ delivered = 0

\* The Fetcher has read payload bytes that the Provider wrote after having
\* read the half-closed greeting.
C18_Witness ==
  /\ fpc = "drain"
  /\ drain.read > 0
  /\ greeting.fin
  /\ tasks[fconn].message = NODE_ID_LEN + HELLO_SUFFIX_LEN
  /\ tasks[fconn].pc = "write"

\* C20: in every state the bytes the drain has counted are at most the
\* bytes the Provider has written, which are at most the payload size; the
\* two byte counters and the chunk count never decrease; the chunk count
\* grows by one in exactly the steps that are a read call returning data,
\* however many data units that call took.
C20_Bounds ==
  /\ \A c \in Conns : Written(c) <= size
  /\ fconn = 0 => (drain.read = 0 /\ delivered = 0)
  /\ fconn > 0 =>
       /\ drain.read <= delivered
       /\ delivered <= Written(fconn)

C20_Monotone ==
  /\ \A c \in Conns : SumSeq(tasks'[c].writes) >= Written(c)
  /\ drain'.read >= drain.read
  /\ drain'.num_chunks \in {drain.num_chunks, drain.num_chunks + 1}
  /\ (drain'.num_chunks = drain.num_chunks + 1) = (drain'.read > drain.read)
  /\ (drain'.num_chunks = drain.num_chunks + 1) = (Len(units') < Len(units))

C20_Counters == []C20_Bounds /\ [][C20_Monotone]_vars

\* One read call took two data units: two units delivered, one chunk counted.
C20_Witness ==
  /\ drain.num_chunks = 1
  /\ drain.n = 2
  /\ drain.read = size
  /\ Written(fconn) = size
  /\ size = CHUNK + 1

\* The transfer is over and both sides ended cleanly: the Provider's task
\* through an application close with nothing printed, fetch with its report.
CleanEnd ==
  /\ fconn > 0
  /\ tasks[fconn].pc = "done_ok"
  /\ tasks[fconn].message = NODE_ID_LEN + HELLO_SUFFIX_LEN
  /\ tasks[fconn].finished
  /\ tasks[fconn].closed = "app"
  /\ tasks[fconn].printed = "none"
  /\ len = size
  /\ fpc = "done_ok"
  /\ report.emitted

\* C19, as stated: on a transport that delivers everything, under fair
\* scheduling, every wait completes, the Fetcher reports and the Provider's
\* task ends through a clean application close, with no anomaly and no
\* timeout reported.  Its conclusion on the ends, as a final result:
C19_CleanEndAlways ==
  /\ \A c \in Conns :
       Ended(tasks[c]) =>
         /\ tasks[c].pc = "done_ok"
         /\ tasks[c].closed = "app"
         /\ tasks[c].printed = "none"
  /\ fpc \in {"done_ok", "done_err"} => (fpc = "done_ok" /\ report.emitted)

\* No close wait has reached its 3-second timeout.
NoCloseTimeout ==
  /\ \A c \in Conns : tasks[c].closed # "timeout"
  /\ ferr # "close timed out"

\* C19, amended: the same, when neither close wait lasts 3 seconds.  Then
\* the run comes to the clean end and stays there.
C19_NoDeadlock == []NoCloseTimeout => <>[]CleanEnd

\* A transfer of a payload of two chunks has come to its clean end.
C19_Witness ==
  /\ CleanEnd
  /\ size = CHUNK + 1
  /\ report.len = size
  /\ drain.num_chunks = 2

====
